---- MODULE Spec2Model ----
(***************************************************************************)
(* Model of src/search/queries/term_query.rs: the TermQuery builder, its   *)
(* skip predicate and its serialization to the nested wire shape           *)
(*   { "term": { <field>: { "value": v, ["boost": b], ["_name": n] } } }.  *)
(*                                                                         *)
(* Strings are TLA+ strings.  A scalar is a record [kind, i, s]; a float   *)
(* is kept in tenths (i = 20 is 2.0) so that the integer 2 and the float   *)
(* 2.0 are different wire values.  A JSON value is a record [t, e, v]:     *)
(* t = "obj" with the ordered entries e, t = "arr" with the items e, or    *)
(* t = "val" with the scalar v.                                            *)
(***************************************************************************)
EXTENDS Integers, Sequences, FiniteSets

VARIABLES q, argField, argValue, calls, obs, boolOuts

vars == <<q, argField, argValue, calls, obs, boolOuts>>

\* Longest chain of boost()/name() calls explored after a construction.
MaxCalls == 3

\* Longest run of serialize()/should_skip() calls explored on one value.
MaxObs == 3

----------------------------------------------------------------------------
\* Scalars and options

ScalarInt(n) == [kind |-> "int", i |-> n, s |-> ""]
ScalarFloat(tenths) == [kind |-> "float", i |-> tenths, s |-> ""]
ScalarBool(b) == [kind |-> "bool", i |-> IF b THEN 1 ELSE 0, s |-> ""]
ScalarStr(str) == [kind |-> "str", i |-> 0, s |-> str]
ScalarNull == [kind |-> "null", i |-> 0, s |-> ""]

None == [some |-> FALSE, v |-> ScalarNull]
Some(x) == [some |-> TRUE, v |-> x]

\* Arguments of TermQuery::new: impl Into<String> and impl Into<OptionalScalar>.
\* A value argument is a typed primitive or an Option of one.
PrimArg(x) == [form |-> "prim", prim |-> x]
NoneArg == [form |-> "none", prim |-> ScalarNull]

Fields == {"", "test", " Test "}
Prims == {ScalarInt(0), ScalarInt(123), ScalarBool(FALSE), ScalarStr(""),
          ScalarStr("username"), ScalarFloat(0)}
ValueArgs == {PrimArg(x) : x \in Prims} \cup {NoneArg}
BoostArgs == {ScalarInt(2), ScalarFloat(15)}
NameArgs == {"test", ""}

\* OptionalScalar::from: a typed primitive is always present, None is absent.
IntoOptionalScalar(a) == IF a.form = "none" THEN None ELSE Some(a.prim)

\* Boost::from: any numeric input, stored as a floating value.
IntoBoost(n) == IF n.kind = "int" THEN ScalarFloat(n.i * 10) ELSE n

\* ShouldSkip for OptionalScalar and for Option<T>: skip iff absent.
OptionalScalar_should_skip(o) == ~o.some
Option_should_skip(o) == ~o.some

----------------------------------------------------------------------------
\* JSON values

JVal(x) == [t |-> "val", e |-> << >>, v |-> x]
JObj(entries) == [t |-> "obj", e |-> entries, v |-> ScalarNull]
JArr(items) == [t |-> "arr", e |-> items, v |-> ScalarNull]
Entry(key, val) == [k |-> key, v |-> val]

Keys(j) == {j.e[n].k : n \in 1..Len(j.e)}
Get(j, key) == j.e[CHOOSE n \in 1..Len(j.e) : j.e[n].k = key].v

\* Serialize for OptionalScalar / Option<Scalar>: the scalar, or null.
OptionalScalar_serialize(o) == IF o.some THEN JVal(o.v) ELSE JVal(ScalarNull)

----------------------------------------------------------------------------
\* TermQuery

\* Variant of TermQuery_new: the field is trimmed and an empty string value
\* is taken for an absent one.
TermQuery_new_normalising(field, value) ==
    [field |-> IF field = " Test " THEN "Test" ELSE field,
     inner |-> [value |-> IF value.prim = ScalarStr("") THEN None
                          ELSE IntoOptionalScalar(value),
                boost |-> None,
                _name |-> [some |-> FALSE, v |-> ""]]]

TermQuery_new(field, value) ==
    [field |-> field,
     inner |-> [value |-> IntoOptionalScalar(value),
                boost |-> None,
                _name |-> [some |-> FALSE, v |-> ""]]]

Query_term(field, value) == TermQuery_new(field, value)

\* Variant of name: the whole set of conveniences is rebuilt.
name_resetting(self, n) ==
    [self EXCEPT !.inner._name = [some |-> TRUE, v |-> n],
                 !.inner.boost = None]

\* add_boost_and_name!()
boost(self, b) == [self EXCEPT !.inner.boost = Some(IntoBoost(b))]
name(self, n) == [self EXCEPT !.inner._name = [some |-> TRUE, v |-> n]]

\* Variant of TermQuery_should_skip: a falsy value counts as absent.
TermQuery_should_skip_falsy(self) ==
    \/ OptionalScalar_should_skip(self.inner.value)
    \/ (self.inner.value.v.i = 0 /\ self.inner.value.v.s = "")

\* Variant of TermQuery_should_skip: the wrong slot is consulted.
TermQuery_should_skip_boost(self) == Option_should_skip(self.inner.boost)

TermQuery_should_skip(self) == OptionalScalar_should_skip(self.inner.value)

\* Variant of Inner_serialize: boost is emitted even when unset.
Inner_serialize_no_skip(inner) ==
    <<Entry("value", OptionalScalar_serialize(inner.value))>>
    \o <<Entry("boost", IF inner.boost.some THEN JVal(inner.boost.v)
                        ELSE JVal(ScalarNull))>>
    \o (IF Option_should_skip(inner._name) THEN << >>
        ELSE <<Entry("_name", JVal(ScalarStr(inner._name.v)))>>)

\* Variant of Inner_serialize: _name is emitted only next to a boost.
Inner_serialize_nested_skip(inner) ==
    <<Entry("value", OptionalScalar_serialize(inner.value))>>
    \o (IF Option_should_skip(inner.boost) THEN << >>
        ELSE <<Entry("boost", JVal(inner.boost.v))>>
             \o (IF Option_should_skip(inner._name) THEN << >>
                 ELSE <<Entry("_name", JVal(ScalarStr(inner._name.v)))>>))

\* Variant of Inner_serialize: an absent value is skipped like the others.
Inner_serialize_skip_value(inner) ==
    (IF OptionalScalar_should_skip(inner.value) THEN << >>
     ELSE <<Entry("value", OptionalScalar_serialize(inner.value))>>)
    \o (IF Option_should_skip(inner.boost) THEN << >>
        ELSE <<Entry("boost", JVal(inner.boost.v))>>)
    \o (IF Option_should_skip(inner._name) THEN << >>
        ELSE <<Entry("_name", JVal(ScalarStr(inner._name.v)))>>)

\* #[derive(Serialize)] on Inner: fields in declaration order, the two
\* optional ones guarded by skip_serializing_if.
Inner_serialize(inner) ==
    <<Entry("value", OptionalScalar_serialize(inner.value))>>
    \o (IF Option_should_skip(inner.boost) THEN << >>
        ELSE <<Entry("boost", JVal(inner.boost.v))>>)
    \o (IF Option_should_skip(inner._name) THEN << >>
        ELSE <<Entry("_name", JVal(ScalarStr(inner._name.v)))>>)

\* HashMap::insert: one entry per key, the later insert wins.
HashMap_insert(h, key, val) == {x \in h : x.k # key} \cup {Entry(key, val)}

\* Variant of TermQuery_hash: a second entry is put into the map.
TermQuery_hash_two_entries(self) ==
    HashMap_insert(HashMap_insert({}, self.field,
                                  JObj(Inner_serialize(self.inner))),
                   "_name", JVal(ScalarStr(self.inner._name.v)))

\* The map built in serialize(): one entry, field -> inner.
TermQuery_hash(self) ==
    HashMap_insert({}, self.field, JObj(Inner_serialize(self.inner)))

\* The iteration orders of a HashMap: any order of its entries.
HashMap_iter(h) ==
    {o \in [1..Cardinality(h) -> h] :
        \A m, n \in 1..Cardinality(h) : m # n => o[m] # o[n]}

\* Serialize for TermQuery: the results a call can produce.
TermQuery_serialize(self) ==
    {[res |-> "Ok", json |-> JObj(<<Entry("term", JObj(o))>>)] :
        o \in HashMap_iter(TermQuery_hash(self))}

----------------------------------------------------------------------------
\* The enclosing boolean query, as far as a filter clause is concerned.

\* BoolQuery::filter: a clause that should be skipped is not added.
BoolQuery_filter(clauses, clause) ==
    IF TermQuery_should_skip(clause) THEN clauses ELSE Append(clauses, clause)

\* Serialize for BoolQuery: an empty clause list emits no key.
BoolQuery_serialize(clauses) ==
    IF clauses = << >>
    THEN {JObj(<<Entry("bool", JObj(<< >>))>>)}
    ELSE {JObj(<<Entry("bool",
                 JObj(<<Entry("filter", JArr(<<Entry("", r.json)>>))>>))>>) :
            r \in TermQuery_serialize(clauses[1])}

----------------------------------------------------------------------------
\* State machine

CallBoost(b) == [op |-> "boost", num |-> b, str |-> ""]
CallName(n) == [op |-> "name", num |-> ScalarNull, str |-> n]

NoResult == [res |-> "", json |-> JVal(ScalarNull)]
ObsSerialize(r) == [op |-> "serialize", out |-> r, skip |-> FALSE]
ObsSkip(b) == [op |-> "should_skip", out |-> NoResult, skip |-> b]

Init ==
    \E f \in Fields, v \in ValueArgs :
        /\ q = TermQuery_new(f, v)
        /\ argField = f
        /\ argValue = v
        /\ calls = << >>
        /\ obs = << >>
        /\ boolOuts = {}

\* Query::term(f, v): a fresh query replaces the current one.
Term(f, v) ==
    /\ q' = Query_term(f, v)
    /\ argField' = f
    /\ argValue' = v
    /\ calls' = << >>
    /\ obs' = << >>
    /\ boolOuts' = {}

\* q = q.boost(b): the receiver is consumed, what was observed of it is gone.
Boost(b) ==
    /\ Len(calls) < MaxCalls
    /\ q' = boost(q, b)
    /\ calls' = Append(calls, CallBoost(b))
    /\ obs' = << >>
    /\ boolOuts' = {}
    /\ UNCHANGED <<argField, argValue>>

\* q = q.name(n)
Name(n) ==
    /\ Len(calls) < MaxCalls
    /\ q' = name(q, n)
    /\ calls' = Append(calls, CallName(n))
    /\ obs' = << >>
    /\ boolOuts' = {}
    /\ UNCHANGED <<argField, argValue>>

\* q.serialize(serializer), by reference; the result is recorded.
Serialize ==
    /\ Len(obs) < MaxObs
    /\ \E r \in TermQuery_serialize(q) : obs' = Append(obs, ObsSerialize(r))
    /\ UNCHANGED <<q, argField, argValue, calls, boolOuts>>

\* Variant of ShouldSkip: the call takes the value out of the query.
ShouldSkip_taking ==
    /\ Len(obs) < MaxObs
    /\ obs' = Append(obs, ObsSkip(TermQuery_should_skip(q)))
    /\ q' = [q EXCEPT !.inner.value = None]
    /\ UNCHANGED <<argField, argValue, calls, boolOuts>>

\* q.should_skip(), by reference; the result is recorded.
ShouldSkip ==
    /\ Len(obs) < MaxObs
    /\ obs' = Append(obs, ObsSkip(TermQuery_should_skip(q)))
    /\ UNCHANGED <<q, argField, argValue, calls, boolOuts>>

\* Query::bool().filter(q.clone()) is built and serialized.
BoolFilter ==
    /\ \E j \in BoolQuery_serialize(BoolQuery_filter(<< >>, q)) :
            boolOuts' = boolOuts \cup {j}
    /\ UNCHANGED <<q, argField, argValue, calls, obs>>

Next ==
    \/ \E f \in Fields, v \in ValueArgs : Term(f, v)
    \/ \E b \in BoostArgs : Boost(b)
    \/ \E n \in NameArgs : Name(n)
    \/ Serialize
    \/ ShouldSkip
    \/ BoolFilter

Spec == Init /\ [][Next]_vars

----------------------------------------------------------------------------
\* Views of the recorded history

SerOuts == {obs[n].out : n \in {m \in 1..Len(obs) : obs[m].op = "serialize"}}
SkipOuts == {obs[n].skip : n \in {m \in 1..Len(obs) : obs[m].op = "should_skip"}}
BoostCalls == {n \in 1..Len(calls) : calls[n].op = "boost"}
NameCalls == {n \in 1..Len(calls) : calls[n].op = "name"}
Last(S) == CHOOSE m \in S : \A n \in S : n <= m
AsFloat(n) == IF n.kind = "int" THEN n.i * 10 ELSE n.i
Bag(r) == r.json.e[1].v.e[1].v
WellShaped(r) ==
    /\ r.json.t = "obj" /\ Len(r.json.e) = 1
    /\ r.json.e[1].v.t = "obj" /\ Len(r.json.e[1].v.e) = 1
    /\ Bag(r).t = "obj"
EmptyBool == JObj(<<Entry("bool", JObj(<< >>))>>)

----------------------------------------------------------------------------
\* C1: a query built by new(f, v) from a present primitive v, with no boost()
\* or name() call, serializes to exactly {"term": {f: {"value": v}}}: the
\* inner bag has the single key "value", no "boost" and no "_name".
C1_RequiredFieldsOnly ==
    (calls = << >> /\ argValue.form = "prim") =>
        \A r \in SerOuts :
            /\ r.json = JObj(<<Entry("term", JObj(<<Entry(argField,
                          JObj(<<Entry("value", JVal(argValue.prim))>>))>>))>>)
            /\ Keys(Bag(r)) = {"value"}

C1_Witness ==
    /\ calls = << >>
    /\ argField = "test"
    /\ argValue = PrimArg(ScalarInt(123))
    /\ SerOuts # {}

\* C2: in the serialized inner bag "boost" is present iff boost() was called
\* and then carries the last given number as a float; "_name" is present iff
\* name() was called and then carries the last given string; each of the two
\* is there or not whatever the other is.
C2_OptionalKeys ==
    \A r \in SerOuts :
        /\ WellShaped(r)
        /\ ("boost" \in Keys(Bag(r))) <=> (BoostCalls # {})
        /\ ("_name" \in Keys(Bag(r))) <=> (NameCalls # {})
        /\ BoostCalls # {} =>
              /\ Get(Bag(r), "boost").v.kind = "float"
              /\ Get(Bag(r), "boost").v.i = AsFloat(calls[Last(BoostCalls)].num)
        /\ NameCalls # {} =>
              Get(Bag(r), "_name") = JVal(ScalarStr(calls[Last(NameCalls)].str))

C2_Witness ==
    /\ argField = "test"
    /\ argValue = PrimArg(ScalarInt(123))
    /\ calls = <<CallBoost(ScalarInt(2)), CallName("test")>>
    /\ SerOuts = {[res |-> "Ok", json |->
          JObj(<<Entry("term", JObj(<<Entry("test",
              JObj(<<Entry("value", JVal(ScalarInt(123))),
                     Entry("boost", JVal(ScalarFloat(20))),
                     Entry("_name", JVal(ScalarStr("test")))>>))>>))>>)]}

\* C3: a query constructed with an absent value reports should_skip() = true,
\* and a boolean query given it as its only filter clause serializes to
\* {"bool": {}}: no "filter" key, the "bool" tag kept.
C3_AbsentValueSkipped ==
    argValue.form = "none" =>
        /\ SkipOuts \subseteq {TRUE}
        /\ boolOuts \subseteq {EmptyBool}

C3_Witness ==
    /\ argValue.form = "none"
    /\ SkipOuts = {TRUE}
    /\ boolOuts = {EmptyBool}

\* C4: should_skip() is true iff the value is absent: a present falsy value
\* (false, 0, "") is not skipped, and field, boost and name play no part.
C4_SkipIffAbsent ==
    /\ SkipOuts \subseteq {argValue.form = "none"}
    /\ TermQuery_should_skip(q) <=> (argValue.form = "none")

C4_Witness ==
    /\ argValue = PrimArg(ScalarStr(""))
    /\ argField = ""
    /\ BoostCalls # {}
    /\ NameCalls # {}
    /\ SkipOuts = {FALSE}

\* C5: attaching boost(b) then name(n) gives the same query value, and the
\* same serialized output, as attaching name(n) then boost(b).
C5_AttachmentOrder ==
    \A b \in BoostArgs, n \in NameArgs :
        /\ calls = <<CallBoost(b), CallName(n)>> =>
              /\ q = boost(name(TermQuery_new(argField, argValue), n), b)
              /\ SerOuts \subseteq TermQuery_serialize(
                      boost(name(TermQuery_new(argField, argValue), n), b))
        /\ calls = <<CallName(n), CallBoost(b)>> =>
              /\ q = name(boost(TermQuery_new(argField, argValue), b), n)
              /\ SerOuts \subseteq TermQuery_serialize(
                      name(boost(TermQuery_new(argField, argValue), b), n))

C5_Witness ==
    /\ calls = <<CallName("test"), CallBoost(ScalarInt(2))>>
    /\ q = name(boost(TermQuery_new(argField, argValue), ScalarInt(2)), "test")
    /\ SerOuts # {}

\* C6: every field string, the empty one included, is accepted and stored
\* unchanged; serialization reports no error and uses exactly that string as
\* the single key under "term".
C6_FieldVerbatim ==
    /\ q.field = argField
    /\ \A r \in SerOuts :
          /\ r.res = "Ok"
          /\ WellShaped(r)
          /\ Keys(r.json) = {"term"}
          /\ Keys(r.json.e[1].v) = {argField}

C6_Witness ==
    /\ argField = ""
    /\ \E r \in SerOuts : r.res = "Ok" /\ r.json.e[1].v.e[1].k = ""

\* C7: serialization is deterministic: a value has one possible output, and
\* the outputs recorded for an unmodified value are all the same, key order
\* included.
C7_Deterministic ==
    /\ Cardinality(TermQuery_serialize(q)) = 1
    /\ \A m, n \in 1..Len(obs) :
          (obs[m].op = "serialize" /\ obs[n].op = "serialize") =>
              obs[m].out = obs[n].out

C7_Witness ==
    /\ Len(obs) >= 2
    /\ obs[1].op = "serialize"
    /\ obs[2].op = "serialize"
    /\ BoostCalls # {}
    /\ NameCalls # {}

\* C8: should_skip() is idempotent and read-only: the calls recorded for an
\* unmodified value, however interleaved with serialize calls, all returned
\* the same result, and a should_skip() or serialize call leaves field,
\* value, boost and name as they were.
C8_SkipIdempotent ==
    /\ [](\A m, n \in 1..Len(obs) :
            (obs[m].op = "should_skip" /\ obs[n].op = "should_skip") =>
                obs[m].skip = obs[n].skip)
    /\ [][Len(obs') > Len(obs) => q' = q]_vars

C8_Witness ==
    /\ Len(obs) = 3
    /\ obs[1].op = "should_skip"
    /\ obs[2].op = "serialize"
    /\ obs[3].op = "should_skip"
    /\ obs[1].skip = obs[3].skip

\* C9: after new(f, v) and any chain of boost() and name() calls the field is
\* f and the value is v; the boost slot holds the argument of the last
\* boost() call and the name slot that of the last name() call, each unset if
\* its setter was never called, and that is what is serialized.
C9_BuilderFrame ==
    /\ q.field = argField
    /\ q.inner.value.some = (argValue.form = "prim")
    /\ argValue.form = "prim" => q.inner.value.v = argValue.prim
    /\ q.inner.boost.some = (BoostCalls # {})
    /\ BoostCalls # {} =>
          /\ q.inner.boost.v.kind = "float"
          /\ q.inner.boost.v.i = AsFloat(calls[Last(BoostCalls)].num)
    /\ q.inner._name.some = (NameCalls # {})
    /\ NameCalls # {} => q.inner._name.v = calls[Last(NameCalls)].str
    /\ \A r \in SerOuts :
          /\ argValue.form = "prim" =>
                Get(Bag(r), "value") = JVal(argValue.prim)
          /\ BoostCalls # {} =>
                Get(Bag(r), "boost").v.i = AsFloat(calls[Last(BoostCalls)].num)
          /\ NameCalls # {} =>
                Get(Bag(r), "_name").v.s = calls[Last(NameCalls)].str

C9_Witness ==
    /\ calls = <<CallBoost(ScalarInt(2)), CallName("test"),
                 CallBoost(ScalarFloat(15))>>
    /\ argValue = PrimArg(ScalarStr(""))
    /\ q.inner.boost = Some(ScalarFloat(15))
    /\ SerOuts # {}

\* C10: serializing a query directly always gives a single-entry map keyed
\* "term" over a single-entry map keyed by the field over an inner bag that
\* has the key "value", also when the value is absent and should_skip() is
\* true; only the enclosing boolean query leaves the query out.
C10_ValueKeyAlways ==
    /\ \A r \in SerOuts :
          /\ WellShaped(r)
          /\ r.json.e[1].k = "term"
          /\ r.json.e[1].v.e[1].k = q.field
          /\ "value" \in Keys(Bag(r))
    /\ \A j \in boolOuts : (j = EmptyBool) <=> TermQuery_should_skip(q)

C10_Witness ==
    /\ argValue.form = "none"
    /\ SkipOuts = {TRUE}
    /\ boolOuts = {EmptyBool}
    /\ \E r \in SerOuts : Get(Bag(r), "value") = JVal(ScalarNull)

====
